---------------------------- MODULE Spec2Model ----------------------------
(***************************************************************************)
(* Session and authentication-token lifecycle of the job portal:           *)
(* signup, OTP e-mail verification with lockout, sign-in with account      *)
(* lockout, session creation, refresh-token rotation and sign-out.         *)
(*                                                                         *)
(* Every request is an asynchronous task (a process p).  Each await of the *)
(* TypeScript code that touches the Credential Store (PostgreSQL through   *)
(* Prisma), the Session Store (Redis) or the cookies is one step of the    *)
(* task; the position of a task is proc[p].pc.                             *)
(***************************************************************************)
EXTENDS Integers, Sequences, FiniteSets, TLC

(***************************************************************************)
(* Program constants                                                       *)
(***************************************************************************)
OTP_MAX_ATTEMPTS == 3
OTP_LOCKOUT_MINUTES == 15
LOGIN_MAX_ATTEMPTS == 5
LOGIN_LOCKOUT_MINUTES == 15
TIMING_ATTACK_DELAY_MS == 800

\* createVerificationOTP's default expiresIn: 5 * 60 * 1000 ms
OtpExpiresInMs == 5 * 60 * 1000
\* generateAccessToken / generateRefreshToken: expiresIn in seconds
AccessExpiresInSec == 24 * 60 * 60
RefreshExpiresInSec == 7 * 24 * 60 * 60
\* storeSession: expirySeconds of the Redis key
SessionExpirySeconds == 7 * 24 * 60 * 60

\* a nullable TIMESTAMP column holding NULL
NullTime == 0 - 1

(***************************************************************************)
(* Bounds of the model                                                     *)
(***************************************************************************)
\* number of clock ticks of five minutes (OTP and login scenarios)
MaxTicks == 4
\* number of clock ticks of four days (session scenarios)
MaxSessionTicks == 2
\* cap of the attempt counters (they are unbounded integers in the store)
MaxOtpAttempts == 4
MaxFailedLogins == 6
\* number of request tasks that may run concurrently in the concurrent scenarios
MaxConcurrent == 2

FiveMinutesMs == 5 * 60 * 1000
FourDaysMs == 4 * 24 * 60 * 60 * 1000

Emails == {"alice@x.com"}
\* what a caller may type as e-mail
EmailInputs == {"alice@x.com", "Alice@X.com"}
Names == {"Alice"}
Roles == {"job_seeker"}
\* the password chosen at signup, and what a caller may type at sign-in
SignupPasswords == {"Passw0rd1"}
Passwords == {"Passw0rd1", "Wr0ngPass1"}
\* the values randomInt(100000, 1000000).toString() is drawn from
Codes == {"111111", "222222"}
\* browsers (cookie jars)
Clients == {"deviceA", "deviceB"}

\* whether emailService.sendVerificationEmail delivered or threw
MailOutcomes == {"sent", "failed"}
\* the milliseconds one awaited call of resendVerificationEmail may take
WorkDurations == {0, 500}

SeqProcs == {1}
ConcProcs == 1..MaxConcurrent
Procs == SeqProcs \cup ConcProcs

VARIABLES
    now,          \* Date.now(), in ms
    users,        \* table "users": [registered e-mail -> row]
    otps,         \* table "verification_tokens": a set of rows
    sessionStore, \* Redis keys session:<userId>: [userId -> record]
    cookies,      \* per browser: the accessToken and refreshToken cookies
    proc,         \* per request task: operation, position, inputs, locals, outcome
    otpLockSetAt, \* history: per e-mail, when lockOTPVerification last ran
    consumed,     \* history: the (e-mail, code) pairs a VerifyEmail succeeded with
    usedRefresh,  \* history: the refresh token the latest rotation replaced by another
    revoked       \* history: the refresh tokens issued before a SignOut of their
                  \* principal and not issued again since

vars == <<now, users, otps, sessionStore, cookies, proc, otpLockSetAt, consumed, usedRefresh, revoked>>

(***************************************************************************)
(* Pure helpers                                                            *)
(***************************************************************************)
\* bcryptjs.hash / bcryptjs.compare (the salt plays no role in the outcome)
HashPassword(pw) == <<"bcrypt", pw>>

ComparePassword(pw, hashed) == hashed = HashPassword(pw)

\* createUser: the id column (a fresh cuid per row; e-mails are unique)
UserIdOf(e) == <<"user", e>>

MinutesToMs(m) == m * 60 * 1000

\* z.email().toLowerCase() of the validators
ToLowerCase(e) == IF e = "Alice@X.com" THEN "alice@x.com" ELSE e

Max(a, b) == IF a >= b THEN a ELSE b

\* rows of verification_tokens with the given identifier
OtpRows(e) == {r \in otps : r.identifier = e}

\* a primary key not in use among the live rows
FreshOtpId == CHOOSE i \in 1..(Cardinality(otps) + 1) : \A r \in otps : r.id # i

\* the HS256 key the server signs and verifies with
JWT_SECRET == "JWT_SECRET"

\* an absent cookie; key is the key a token is signed with
NoToken == [type |-> "none", userId |-> "", iat |-> 0, exp |-> 0, claims |-> <<>>, key |-> ""]

\* the task record of a task that runs no request
IdleProc ==
    [op |-> "none", pc |-> "idle", client |-> "none", email |-> "", arg |-> "",
     name |-> "", role |-> "", user |-> <<>>, cur |-> 0, n |-> 0, compares |-> 0, result |-> "",
     replay |-> FALSE, mismatch |-> FALSE, presented |-> NoToken, tok |-> NoToken,
     afterSignOut |-> FALSE, status |-> "", failedAt |-> "", mail |-> "", elapsed |-> 0, duration |-> 0]

Init ==
    /\ now = 0
    /\ users = <<>>
    /\ otps = {}
    /\ sessionStore = <<>>
    /\ cookies = [c \in Clients |-> [accessToken |-> NoToken, refreshToken |-> NoToken]]
    /\ proc = [p \in Procs |-> IdleProc]
    /\ otpLockSetAt = [e \in Emails |-> NullTime]
    /\ consumed = {}
    /\ usedRefresh = NoToken
    /\ revoked = {}

\* the task ends with an outcome
Finish(p, res) == [proc[p] EXCEPT !.pc = "done", !.result = res]

\* the response has been delivered; the task is free for the next request
Return(p) ==
    /\ proc[p].pc = "done"
    /\ proc' = [proc EXCEPT ![p] = IdleProc]
    /\ UNCHANGED <<now, users, otps, sessionStore, cookies, otpLockSetAt, consumed, usedRefresh, revoked>>

\* the wall clock advances by d ms, at most up to maxNow
Tick(d, maxNow) ==
    /\ now + d <= maxNow
    /\ now' = now + d
    /\ UNCHANGED <<users, otps, sessionStore, cookies, proc, otpLockSetAt, consumed, usedRefresh, revoked>>

(***************************************************************************)
(* Signup                                                                  *)
(***************************************************************************)
SignupStart(p, nm, e, pw, role) ==
    /\ proc[p].pc = "idle"
    /\ proc' = [proc EXCEPT ![p] = [IdleProc EXCEPT !.op = "signup", !.pc = "su_exists",
                                     !.email = e, !.arg = pw, !.name = nm, !.role = role]]
    /\ UNCHANGED <<now, users, otps, sessionStore, cookies, otpLockSetAt, consumed, usedRefresh, revoked>>

\* the catch of authRouter.signup: the TRPC error code for a thrown Error
SignupErrorCode(message) ==
    IF message = "Email is already registered" THEN "Conflict"
    ELSE IF message = "not an Error" THEN "InternalServerError"
    ELSE "BadRequest"

\* authRepository.emailExists, and the throw when it does
SignupEmailExists(p) ==
    /\ proc[p].pc = "su_exists"
    /\ proc' = [proc EXCEPT ![p] =
                  IF proc[p].email \in DOMAIN users
                  THEN Finish(p, SignupErrorCode("Email is already registered"))
                  ELSE [proc[p] EXCEPT !.pc = "su_create"]]
    /\ UNCHANGED <<now, users, otps, sessionStore, cookies, otpLockSetAt, consumed, usedRefresh, revoked>>

\* a row that is born verified and active
NewUserRowVerified(nm, e, pw, role) ==
    [id |-> UserIdOf(e), name |-> nm, email |-> e, passwordHash |-> HashPassword(pw),
     role |-> role, status |-> "active", verified |-> TRUE, verifiedAt |-> now,
     lastLogin |-> NullTime, failedLoginAttempts |-> 0, lockedUntil |-> NullTime]

\* the row authRepository.createUser inserts (column defaults of table "users")
NewUserRow(nm, e, pw, role) ==
    [id |-> UserIdOf(e), name |-> nm, email |-> e, passwordHash |-> HashPassword(pw),
     role |-> role, status |-> "inactive", verified |-> FALSE, verifiedAt |-> NullTime,
     lastLogin |-> NullTime, failedLoginAttempts |-> 0, lockedUntil |-> NullTime]

\* hashPassword and authRepository.createUser; the unique index on users.email
\* rejects the insert when a concurrent signup committed first, and Prisma throws
\* its own Error
SignupCreateUser(p) ==
    /\ proc[p].pc = "su_create"
    /\ IF proc[p].email \in DOMAIN users
       THEN /\ proc' = [proc EXCEPT ![p] =
                         Finish(p, SignupErrorCode("Unique constraint failed on the fields: (email)"))]
            /\ UNCHANGED users
       ELSE /\ users' = users @@ (proc[p].email :>
                           NewUserRow(proc[p].name, proc[p].email, proc[p].arg, proc[p].role))
            /\ proc' = [proc EXCEPT ![p].pc = "su_otp"]
    /\ UNCHANGED <<now, otps, sessionStore, cookies, otpLockSetAt, consumed, usedRefresh, revoked>>

\* the row authRepository.createVerificationOTP inserts
NewOtpRow(e, code) ==
    [id |-> FreshOtpId, identifier |-> e, otp |-> code, expires |-> now + OtpExpiresInMs,
     attempts |-> 0, lockedUntil |-> NullTime]

\* generateVerificationOTP, createVerificationOTP, and the e-mail whose failure
\* is logged and swallowed
SignupCreateOtp(p) ==
    /\ proc[p].pc = "su_otp"
    /\ \E code \in Codes : otps' = otps \cup {NewOtpRow(proc[p].email, code)}
    /\ \E mail \in MailOutcomes :
          proc' = [proc EXCEPT ![p] = [Finish(p, "ok") EXCEPT !.mail = mail]]
    /\ UNCHANGED <<now, users, sessionStore, cookies, otpLockSetAt, consumed, usedRefresh, revoked>>

Signup(p) ==
    \/ \E nm \in Names, e \in EmailInputs, pw \in SignupPasswords, role \in Roles :
         SignupStart(p, nm, ToLowerCase(e), pw, role)
    \/ SignupEmailExists(p)
    \/ SignupCreateUser(p)
    \/ SignupCreateOtp(p)

(***************************************************************************)
(* VerifyEmail                                                             *)
(***************************************************************************)
VerifyEmailStart(p, e, code) ==
    /\ proc[p].pc = "idle"
    /\ \A r \in OtpRows(e) : r.attempts < MaxOtpAttempts
    /\ proc' = [proc EXCEPT ![p] = [IdleProc EXCEPT !.op = "verifyEmail", !.pc = "ve_locked",
                                     !.email = e, !.arg = code,
                                     !.replay = (<<e, code>> \in consumed)]]
    /\ UNCHANGED <<now, users, otps, sessionStore, cookies, otpLockSetAt, consumed, usedRefresh, revoked>>

\* authRepository.isOTPLocked
IsOTPLocked(e) == \E r \in OtpRows(e) : r.lockedUntil # NullTime /\ r.lockedUntil > now

\* the lock check at the head of verifyEmail
VerifyEmailLockCheck(p) ==
    /\ proc[p].pc = "ve_locked"
    /\ proc' = [proc EXCEPT ![p] =
                  IF IsOTPLocked(proc[p].email)
                  THEN Finish(p, "OTPLocked")
                  ELSE [proc[p] EXCEPT !.pc = "ve_find"]]
    /\ UNCHANGED <<now, users, otps, sessionStore, cookies, otpLockSetAt, consumed, usedRefresh, revoked>>

\* a lookup that forgets the expiry
FindVerificationOTPAnyAge(e, code) ==
    {r \in OtpRows(e) : r.otp = code}

\* authRepository.findVerificationOTP: some row of (email, otp) with expires > now
FindVerificationOTP(e, code) ==
    {r \in OtpRows(e) : r.otp = code /\ r.expires > now}

VerifyEmailFind(p) ==
    /\ proc[p].pc = "ve_find"
    /\ proc' = [proc EXCEPT ![p].pc =
                  IF FindVerificationOTP(proc[p].email, proc[p].arg) # {}
                  THEN "ve_user" ELSE "ve_txread"]
    /\ UNCHANGED <<now, users, otps, sessionStore, cookies, otpLockSetAt, consumed, usedRefresh, revoked>>

\* inside prisma.$transaction: tx.verificationToken.findFirst({identifier}); the
\* row it returns is any of the e-mail's rows, and none gives 0 attempts.
\* PostgreSQL runs the transaction READ COMMITTED (no isolationLevel is passed),
\* so this plain SELECT takes no lock and other transactions may commit between
\* it and the UPDATE that follows.
VerifyEmailTxRead(p) ==
    /\ proc[p].pc = "ve_txread"
    /\ \/ /\ OtpRows(proc[p].email) = {}
          /\ proc' = [proc EXCEPT ![p].pc = "ve_txinc", ![p].cur = 0]
       \/ \E r \in OtpRows(proc[p].email) :
             proc' = [proc EXCEPT ![p].pc = "ve_txinc", ![p].cur = r.attempts]
    /\ UNCHANGED <<now, users, otps, sessionStore, cookies, otpLockSetAt, consumed, usedRefresh, revoked>>

\* tx.verificationToken.updateMany({identifier}, attempts: {increment: 1}) and the
\* commit; newAttempts is computed from the value read before
VerifyEmailTxIncrement(p) ==
    /\ proc[p].pc = "ve_txinc"
    /\ otps' = {IF r.identifier = proc[p].email
                THEN [r EXCEPT !.attempts = r.attempts + 1] ELSE r : r \in otps}
    /\ proc' = [proc EXCEPT ![p].pc = "ve_decide", ![p].n = proc[p].cur + 1]
    /\ UNCHANGED <<now, users, sessionStore, cookies, otpLockSetAt, consumed, usedRefresh, revoked>>

\* authRepository.lockOTPVerification
LockOTPVerification(e, durationMs) ==
    {IF r.identifier = e THEN [r EXCEPT !.lockedUntil = now + durationMs] ELSE r : r \in otps}

\* a lock one failure late
OtpThresholdReachedLate(newAttempts) == newAttempts > OTP_MAX_ATTEMPTS

\* the threshold test after the transaction
OtpThresholdReached(newAttempts) == newAttempts >= OTP_MAX_ATTEMPTS

\* "Lock after OTP_MAX_ATTEMPTS", else "Invalid or expired OTP"
VerifyEmailDecide(p) ==
    /\ proc[p].pc = "ve_decide"
    /\ IF OtpThresholdReached(proc[p].n)
       THEN /\ otps' = LockOTPVerification(proc[p].email, MinutesToMs(OTP_LOCKOUT_MINUTES))
            /\ otpLockSetAt' = [otpLockSetAt EXCEPT ![proc[p].email] = now]
            /\ proc' = [proc EXCEPT ![p] = Finish(p, "OTPLocked")]
       ELSE /\ proc' = [proc EXCEPT ![p] = Finish(p, "InvalidOrExpiredOTP")]
            /\ UNCHANGED <<otps, otpLockSetAt>>
    /\ UNCHANGED <<now, users, sessionStore, cookies, consumed, usedRefresh, revoked>>

\* authRepository.findByEmail after the OTP matched
VerifyEmailFindUser(p) ==
    /\ proc[p].pc = "ve_user"
    /\ proc' = [proc EXCEPT ![p] =
                  IF proc[p].email \in DOMAIN users
                  THEN [proc[p] EXCEPT !.pc = "ve_update", !.user = <<users[proc[p].email]>>]
                  ELSE Finish(p, "UserNotFound")]
    /\ UNCHANGED <<now, users, otps, sessionStore, cookies, otpLockSetAt, consumed, usedRefresh, revoked>>

\* authRepository.updateVerificationStatus(user.id, true)
UpdateVerificationStatus(row, verified) ==
    [row EXCEPT !.verified = verified,
                !.verifiedAt = IF verified THEN now ELSE NullTime,
                !.status = IF verified THEN "active" ELSE "inactive"]

VerifyEmailUpdateUser(p) ==
    /\ proc[p].pc = "ve_update"
    /\ users' = [users EXCEPT ![proc[p].email] = UpdateVerificationStatus(@, TRUE)]
    /\ proc' = [proc EXCEPT ![p].pc = "ve_delete"]
    /\ UNCHANGED <<now, otps, sessionStore, cookies, otpLockSetAt, consumed, usedRefresh, revoked>>

\* authRepository.deleteVerificationOTPsByEmail
DeleteVerificationOTPsByEmail(e) == {r \in otps : r.identifier # e}

VerifyEmailDeleteOtps(p) ==
    /\ proc[p].pc = "ve_delete"
    /\ otps' = DeleteVerificationOTPsByEmail(proc[p].email)
    /\ consumed' = consumed \cup {<<proc[p].email, proc[p].arg>>}
    /\ proc' = [proc EXCEPT ![p] = Finish(p, "ok")]
    /\ UNCHANGED <<now, users, sessionStore, cookies, otpLockSetAt, usedRefresh, revoked>>

VerifyEmail(p) ==
    \/ \E e \in EmailInputs, code \in Codes : VerifyEmailStart(p, ToLowerCase(e), code)
    \/ VerifyEmailLockCheck(p)
    \/ VerifyEmailFind(p)
    \/ VerifyEmailTxRead(p)
    \/ VerifyEmailTxIncrement(p)
    \/ VerifyEmailDecide(p)
    \/ VerifyEmailFindUser(p)
    \/ VerifyEmailUpdateUser(p)
    \/ VerifyEmailDeleteOtps(p)

(***************************************************************************)
(* ResendVerification                                                      *)
(***************************************************************************)
\* const startTime = Date.now().  The clock now moves in steps of minutes; the
\* milliseconds a call has been running, Date.now() - startTime, are kept per
\* task in elapsed.
ResendStart(p, e) ==
    /\ proc[p].pc = "idle"
    /\ proc' = [proc EXCEPT ![p] = [IdleProc EXCEPT !.op = "resend", !.pc = "rs_user", !.email = e]]
    /\ UNCHANGED <<now, users, otps, sessionStore, cookies, otpLockSetAt, consumed, usedRefresh, revoked>>

\* a lookup that tells the caller the e-mail is unknown
ResendFindUserRevealing(p) ==
    /\ proc[p].pc = "rs_user"
    /\ \E d \in WorkDurations :
          proc' = [proc EXCEPT ![p] =
                     IF proc[p].email \notin DOMAIN users
                     THEN Finish(p, "NotFound")
                     ELSE IF ~users[proc[p].email].verified
                     THEN [proc[p] EXCEPT !.pc = "rs_delete", !.elapsed = @ + d,
                                          !.user = <<users[proc[p].email]>>]
                     ELSE [proc[p] EXCEPT !.pc = "rs_delay", !.elapsed = @ + d]]
    /\ UNCHANGED <<now, users, otps, sessionStore, cookies, otpLockSetAt, consumed, usedRefresh, revoked>>

\* findByEmail, then the three branches: verified, unverified, unknown
ResendFindUser(p) ==
    /\ proc[p].pc = "rs_user"
    /\ \E d \in WorkDurations :
          proc' = [proc EXCEPT ![p] =
                     IF proc[p].email \in DOMAIN users /\ ~users[proc[p].email].verified
                     THEN [proc[p] EXCEPT !.pc = "rs_delete", !.elapsed = @ + d,
                                          !.user = <<users[proc[p].email]>>]
                     ELSE [proc[p] EXCEPT !.pc = "rs_delay", !.elapsed = @ + d]]
    /\ UNCHANGED <<now, users, otps, sessionStore, cookies, otpLockSetAt, consumed, usedRefresh, revoked>>

\* "Delete old OTPs"
ResendDeleteOtps(p) ==
    /\ proc[p].pc = "rs_delete"
    /\ otps' = DeleteVerificationOTPsByEmail(proc[p].email)
    /\ \E d \in WorkDurations :
          proc' = [proc EXCEPT ![p].pc = "rs_create", ![p].elapsed = @ + d]
    /\ UNCHANGED <<now, users, sessionStore, cookies, otpLockSetAt, consumed, usedRefresh, revoked>>

\* "Generate new verification OTP" for user.email, and the e-mail, whose
\* failure is logged and swallowed
ResendCreateOtp(p) ==
    /\ proc[p].pc = "rs_create"
    /\ \E code \in Codes : otps' = otps \cup {NewOtpRow(proc[p].user[1].email, code)}
    /\ \E d \in WorkDurations, mail \in MailOutcomes :
          proc' = [proc EXCEPT ![p].pc = "rs_delay", ![p].elapsed = @ + d, ![p].mail = mail]
    /\ UNCHANGED <<now, users, sessionStore, cookies, otpLockSetAt, consumed, usedRefresh, revoked>>

\* a sleep of the whole floor, whatever the work took
RemainingDelayWholeFloor(elapsedTime) == TIMING_ATTACK_DELAY_MS

\* Math.max(0, TIMING_ATTACK_DELAY_MS - elapsedTime)
RemainingDelay(elapsedTime) == Max(0, TIMING_ATTACK_DELAY_MS - elapsedTime)

\* elapsedTime, addConstantDelay(remainingDelay) and the constant answer;
\* duration is the time between the call and its return
ResendDelay(p) ==
    /\ proc[p].pc = "rs_delay"
    /\ proc' = [proc EXCEPT ![p] =
                  [Finish(p, "ok") EXCEPT
                     !.duration = proc[p].elapsed + RemainingDelay(proc[p].elapsed)]]
    /\ UNCHANGED <<now, users, otps, sessionStore, cookies, otpLockSetAt, consumed, usedRefresh, revoked>>

ResendVerification(p) ==
    \/ \E e \in EmailInputs : ResendStart(p, ToLowerCase(e))
    \/ ResendFindUser(p)
    \/ ResendDeleteOtps(p)
    \/ ResendCreateOtp(p)
    \/ ResendDelay(p)

(***************************************************************************)
(* SignIn: authService.signIn, then the session creation of authRouter.signIn *)
(***************************************************************************)
SignInStart(p, e, pw, c) ==
    /\ proc[p].pc = "idle"
    /\ e \in DOMAIN users => users[e].failedLoginAttempts < MaxFailedLogins
    /\ proc' = [proc EXCEPT ![p] = [IdleProc EXCEPT !.op = "signIn", !.pc = "si_find",
                                     !.email = e, !.arg = pw, !.client = c]]
    /\ UNCHANGED <<now, users, otps, sessionStore, cookies, otpLockSetAt, consumed, usedRefresh, revoked>>

\* a sign-in that never looks at the lock
AccountIsLockedNever(row) == FALSE

\* user.lockedUntil && user.lockedUntil > new Date()
AccountIsLocked(row) == row.lockedUntil # NullTime /\ row.lockedUntil > now

\* findByEmail, the lock check, and the tests for an unknown user or one with no
\* password (no await separates them)
SignInFindUser(p) ==
    /\ proc[p].pc = "si_find"
    /\ LET e == proc[p].email IN
       proc' = [proc EXCEPT ![p] =
                  IF e \in DOMAIN users /\ AccountIsLocked(users[e])
                  THEN Finish(p, "AccountLocked")
                  ELSE IF e \notin DOMAIN users
                  THEN [proc[p] EXCEPT !.pc = "si_dummy"]
                  ELSE [proc[p] EXCEPT !.pc = "si_compare", !.user = <<users[e]>>]]
    /\ UNCHANGED <<now, users, otps, sessionStore, cookies, otpLockSetAt, consumed, usedRefresh, revoked>>

\* an unknown e-mail refused without a comparison
SignInNoDummyCompare(p) ==
    /\ proc[p].pc = "si_dummy"
    /\ proc' = [proc EXCEPT ![p] = Finish(p, "InvalidCredentials")]
    /\ UNCHANGED <<now, users, otps, sessionStore, cookies, otpLockSetAt, consumed, usedRefresh, revoked>>

\* getDummyHash and the comparison against it, for an unknown e-mail
SignInDummyCompare(p) ==
    /\ proc[p].pc = "si_dummy"
    /\ proc' = [proc EXCEPT ![p] =
                  [Finish(p, "InvalidCredentials") EXCEPT !.compares = proc[p].compares + 1]]
    /\ UNCHANGED <<now, users, otps, sessionStore, cookies, otpLockSetAt, consumed, usedRefresh, revoked>>

\* comparePassword(input.password, user.passwordHash)
SignInCompare(p) ==
    /\ proc[p].pc = "si_compare"
    /\ proc' = [proc EXCEPT ![p].compares = proc[p].compares + 1,
                            ![p].pc = IF ComparePassword(proc[p].arg, proc[p].user[1].passwordHash)
                                      THEN "si_reset" ELSE "si_incr"]
    /\ UNCHANGED <<now, users, otps, sessionStore, cookies, otpLockSetAt, consumed, usedRefresh, revoked>>

\* a read-then-write count: the value findByEmail returned at the start, plus 1
SignInIncrementFailedStale(p) ==
    /\ proc[p].pc = "si_incr"
    /\ LET e == proc[p].user[1].email IN
       /\ users' = [users EXCEPT ![e].failedLoginAttempts = @ + 1]
       /\ proc' = [proc EXCEPT ![p].pc = "si_lock",
                               ![p].n = proc[p].user[1].failedLoginAttempts + 1]
    /\ UNCHANGED <<now, otps, sessionStore, cookies, otpLockSetAt, consumed, usedRefresh, revoked>>

\* authRepository.incrementFailedLoginAttempts: the row is looked up (rows are
\* never deleted) and one UPDATE adds 1 and returns the new count
SignInIncrementFailed(p) ==
    /\ proc[p].pc = "si_incr"
    /\ LET e == proc[p].user[1].email IN
       /\ users' = [users EXCEPT ![e].failedLoginAttempts = @ + 1]
       /\ proc' = [proc EXCEPT ![p].pc = "si_lock", ![p].n = users[e].failedLoginAttempts + 1]
    /\ UNCHANGED <<now, otps, sessionStore, cookies, otpLockSetAt, consumed, usedRefresh, revoked>>

\* a lock one failure late
LoginThresholdReachedLate(count) == count > LOGIN_MAX_ATTEMPTS

\* updated.failedLoginAttempts >= LOGIN_MAX_ATTEMPTS
LoginThresholdReached(count) == count >= LOGIN_MAX_ATTEMPTS

\* authRepository.lockAccount
LockAccount(row, durationMs) == [row EXCEPT !.lockedUntil = now + durationMs]

\* "Lock account after LOGIN_MAX_ATTEMPTS", else "Invalid email or password"
SignInLockDecide(p) ==
    /\ proc[p].pc = "si_lock"
    /\ IF LoginThresholdReached(proc[p].n)
       THEN /\ users' = [users EXCEPT ![proc[p].user[1].email] =
                            LockAccount(@, MinutesToMs(LOGIN_LOCKOUT_MINUTES))]
            /\ proc' = [proc EXCEPT ![p] = Finish(p, "AccountLocked")]
       ELSE /\ proc' = [proc EXCEPT ![p] = Finish(p, "InvalidCredentials")]
            /\ UNCHANGED users
    /\ UNCHANGED <<now, otps, sessionStore, cookies, otpLockSetAt, consumed, usedRefresh, revoked>>

\* a status test that only knows suspended accounts
AccountIsDisabledOnlySuspended(row) == row.verified /\ row.status = "suspended"

\* user.verified && user.status !== UserStatus.ACTIVE
AccountIsDisabled(row) == row.verified /\ row.status # "active"

\* resetFailedLoginAttempts, then the status test on the row read at the start;
\* AccountDisabledError carries that row's status
SignInResetFailed(p) ==
    /\ proc[p].pc = "si_reset"
    /\ users' = [users EXCEPT ![proc[p].user[1].email].failedLoginAttempts = 0]
    /\ proc' = [proc EXCEPT ![p] =
                  IF AccountIsDisabled(proc[p].user[1])
                  THEN [Finish(p, "AccountDisabled") EXCEPT !.status = proc[p].user[1].status]
                  ELSE [proc[p] EXCEPT !.pc = "si_lastlogin"]]
    /\ UNCHANGED <<now, otps, sessionStore, cookies, otpLockSetAt, consumed, usedRefresh, revoked>>

\* authRepository.updateLastLogin; authService.signIn returns its result
SignInUpdateLastLogin(p) ==
    /\ proc[p].pc = "si_lastlogin"
    /\ users' = [users EXCEPT ![proc[p].user[1].email].lastLogin = now]
    /\ proc' = [proc EXCEPT ![p].pc = "si_session"]
    /\ UNCHANGED <<now, otps, sessionStore, cookies, otpLockSetAt, consumed, usedRefresh, revoked>>

\* Math.floor(Date.now() / 1000)
NowSec == now \div 1000

\* generateAccessToken: the payload is the whole object passed in, plus type,
\* iat and exp
GenerateAccessToken(data) ==
    [type |-> "access", userId |-> data.userId, iat |-> NowSec,
     exp |-> NowSec + AccessExpiresInSec, claims |-> data, key |-> JWT_SECRET]

\* generateRefreshToken: the payload is userId and type, plus iat and exp
GenerateRefreshToken(data) ==
    [type |-> "refresh", userId |-> data.userId, iat |-> NowSec,
     exp |-> NowSec + RefreshExpiresInSec, claims |-> <<>>, key |-> JWT_SECRET]

\* the sessionData authRouter.signIn builds from result.user
SessionDataOf(row) ==
    [userId |-> row.id, email |-> row.email, name |-> row.name, role |-> row.role,
     verified |-> row.verified]

\* the value storeSession writes under session:<userId>, with the key's expiry
StoredSession(data, refreshToken) ==
    [data |-> [userId |-> data.userId, email |-> data.email, name |-> data.name,
               role |-> data.role, verified |-> data.verified,
               refreshToken |-> refreshToken, createdAt |-> now],
     ttlUntil |-> now + SessionExpirySeconds * 1000]

\* authRouter.signIn after authService.signIn returned: generateAccessToken,
\* generateRefreshToken, storeSession, setAuthCookies
SignInCreateSession(p) ==
    /\ proc[p].pc = "si_session"
    /\ LET data == SessionDataOf(proc[p].user[1])
           accessToken == GenerateAccessToken(data)
           refreshToken == GenerateRefreshToken(data)
       IN
       /\ sessionStore' = [u \in DOMAIN sessionStore \cup {data.userId} |->
                             IF u = data.userId THEN StoredSession(data, refreshToken)
                             ELSE sessionStore[u]]
       /\ cookies' = [cookies EXCEPT ![proc[p].client] =
                        [accessToken |-> accessToken, refreshToken |-> refreshToken]]
       /\ proc' = [proc EXCEPT ![p] = [Finish(p, "ok") EXCEPT !.tok = refreshToken]]
       /\ revoked' = revoked \ {refreshToken}
    /\ UNCHANGED <<now, users, otps, otpLockSetAt, consumed, usedRefresh>>

\* the steps of session creation that may throw
SessionFailureStages == {"sign", "store", "cookies"}

\* a session creation whose failure reaches the outer catch of authRouter.signIn
SignInSessionFailureSurfaced(p) ==
    /\ proc[p].pc = "si_session"
    /\ \E stage \in SessionFailureStages :
          proc' = [proc EXCEPT ![p] = [Finish(p, "Unauthorized") EXCEPT !.failedAt = stage]]
    /\ UNCHANGED <<now, users, otps, sessionStore, cookies, otpLockSetAt, consumed, usedRefresh, revoked>>

\* session creation throws: while signing a token (nothing written), in
\* storeSession (nothing written), or in setAuthCookies (the record is written, no
\* cookie is set); the inner catch logs it and authRouter.signIn returns result
SignInSessionFailure(p) ==
    /\ proc[p].pc = "si_session"
    /\ \E stage \in SessionFailureStages :
          LET data == SessionDataOf(proc[p].user[1]) IN
          /\ sessionStore' =
                IF stage = "cookies"
                THEN [u \in DOMAIN sessionStore \cup {data.userId} |->
                        IF u = data.userId THEN StoredSession(data, GenerateRefreshToken(data))
                        ELSE sessionStore[u]]
                ELSE sessionStore
          /\ proc' = [proc EXCEPT ![p] = [Finish(p, "ok") EXCEPT !.failedAt = stage]]
    /\ UNCHANGED <<now, users, otps, cookies, otpLockSetAt, consumed, usedRefresh, revoked>>

SignInAuthenticate(p) ==
    \/ SignInFindUser(p)
    \/ SignInDummyCompare(p)
    \/ SignInCompare(p)

SignInFailure(p) ==
    \/ SignInIncrementFailed(p)
    \/ SignInLockDecide(p)

SignInSuccess(p) ==
    \/ SignInResetFailed(p)
    \/ SignInUpdateLastLogin(p)
    \/ SignInCreateSession(p)

(***************************************************************************)
(* RefreshAccessToken, SignOut                                             *)
(***************************************************************************)
\* a verification that does not look at the signature
VerifyTokenUnsigned(tok) == tok.exp > NowSec

\* verifyToken: jwtVerify accepts a token signed with JWT_SECRET whose exp is
\* still ahead; for anything else it throws and verifyToken returns null
VerifyToken(tok) == tok.key = JWT_SECRET /\ tok.exp > NowSec

\* getSession: the value under session:<userId>, unless the key is absent or
\* its expiry has passed
GetSession(u) ==
    IF u \in DOMAIN sessionStore /\ sessionStore[u].ttlUntil > now
    THEN <<sessionStore[u].data>> ELSE <<>>

\* the one-way hash of a refresh token that a Session Record would retain
HashOfToken(tok) == [tok EXCEPT !.type = "hash"]

NoCookies == [accessToken |-> NoToken, refreshToken |-> NoToken]

RefreshStart(p, c) ==
    /\ proc[p].pc = "idle"
    /\ proc' = [proc EXCEPT ![p] = [IdleProc EXCEPT !.op = "refresh", !.pc = "rf_run", !.client = c]]
    /\ UNCHANGED <<now, users, otps, sessionStore, cookies, otpLockSetAt, consumed, usedRefresh, revoked>>

\* refreshAccessToken: the cookie, verifyToken, getSession, the two new tokens
\* and the two cookies; its only access to the Session Store is the one read.
\* redis.get may throw (storeUp is false): the catch returns null.
RefreshAccessToken(p) ==
    /\ proc[p].pc = "rf_run"
    /\ \E storeUp \in BOOLEAN :
       LET c == proc[p].client
           refreshToken == cookies[c].refreshToken
           tokenOk == refreshToken # NoToken /\ VerifyToken(refreshToken)
                        /\ refreshToken.type = "refresh"
           full == IF tokenOk /\ storeUp THEN GetSession(refreshToken.userId) ELSE <<>>
           seen == [proc[p] EXCEPT
                      !.presented = refreshToken,
                      !.replay = (refreshToken # NoToken /\ refreshToken = usedRefresh),
                      !.afterSignOut = (refreshToken \in revoked),
                      !.failedAt = IF tokenOk /\ ~storeUp THEN "getSession" ELSE "",
                      !.mismatch = /\ full # <<>>
                                   /\ full[1].refreshToken # refreshToken
                                   /\ full[1].refreshToken # HashOfToken(refreshToken)]
       IN
       IF full = <<>>
       THEN /\ proc' = [proc EXCEPT ![p] = [seen EXCEPT !.pc = "done", !.result = "null"]]
            /\ UNCHANGED <<cookies, usedRefresh, revoked>>
       ELSE /\ cookies' = [cookies EXCEPT ![c] =
                             [accessToken |-> GenerateAccessToken(full[1]),
                              refreshToken |-> GenerateRefreshToken(full[1])]]
            /\ usedRefresh' = IF GenerateRefreshToken(full[1]) # refreshToken
                              THEN refreshToken ELSE usedRefresh
            /\ revoked' = revoked \ {GenerateRefreshToken(full[1])}
            /\ proc' = [proc EXCEPT ![p] = [seen EXCEPT !.pc = "done", !.result = "ok",
                                                       !.tok = GenerateRefreshToken(full[1])]]
    /\ UNCHANGED <<now, users, otps, sessionStore, otpLockSetAt, consumed>>

Refresh(p) ==
    \/ \E c \in Clients : RefreshStart(p, c)
    \/ RefreshAccessToken(p)

SignOutStart(p, c, e) ==
    /\ proc[p].pc = "idle"
    /\ proc' = [proc EXCEPT ![p] = [IdleProc EXCEPT !.op = "signOut", !.pc = "so_run",
                                     !.client = c, !.email = e]]
    /\ UNCHANGED <<now, users, otps, sessionStore, cookies, otpLockSetAt, consumed, usedRefresh, revoked>>

\* clearSessionOnLogout(userId): invalidateSession deletes session:<userId> and
\* clears the caller's two cookies
InvalidateSession(p) ==
    /\ proc[p].pc = "so_run"
    /\ sessionStore' = [u \in DOMAIN sessionStore \ {UserIdOf(proc[p].email)} |-> sessionStore[u]]
    /\ cookies' = [cookies EXCEPT ![proc[p].client] = NoCookies]
    /\ proc' = [proc EXCEPT ![p] = Finish(p, "ok")]
    /\ revoked' = revoked \cup
          {cookies[c].refreshToken : c \in {c2 \in Clients :
              /\ cookies[c2].refreshToken.type = "refresh"
              /\ cookies[c2].refreshToken.userId = UserIdOf(proc[p].email)}}
    /\ UNCHANGED <<now, users, otps, otpLockSetAt, consumed, usedRefresh>>

SignOut(p) ==
    \/ \E c \in Clients, e \in Emails : SignOutStart(p, c, e)
    \/ InvalidateSession(p)

\* the values of enum UserStatus
UserStatuses == {"active", "inactive", "suspended", "deactivated"}

\* authRepository.updateUserStatus, run by an administrator between requests
UpdateUserStatus(e, status) ==
    /\ e \in DOMAIN users
    /\ users[e].status # status
    /\ \A p \in Procs : proc[p].pc = "idle"
    /\ users' = [users EXCEPT ![e].status = status]
    /\ UNCHANGED <<now, otps, sessionStore, cookies, proc, otpLockSetAt, consumed, usedRefresh, revoked>>

(***************************************************************************)
(* Protected procedures and the logout endpoint                            *)
(***************************************************************************)
\* protectedProcedure, verifiedProtectedProcedure, and authRouter.logout (a
\* protectedProcedure)
ProcedureKinds == {"protected", "verified", "logout"}

ProtectedStart(p, c, kind) ==
    /\ proc[p].pc = "idle"
    /\ proc' = [proc EXCEPT ![p] = [IdleProc EXCEPT !.op = "protected", !.pc = "pp_ctx",
                                     !.client = c, !.arg = kind]]
    /\ UNCHANGED <<now, users, otps, sessionStore, cookies, otpLockSetAt, consumed, usedRefresh, revoked>>

\* getCurrentSession: the payload of the accessToken cookie if verifyToken
\* accepts it
GetCurrentSession(c) ==
    IF cookies[c].accessToken # NoToken /\ VerifyToken(cookies[c].accessToken)
    THEN <<cookies[c].accessToken>> ELSE <<>>

\* createTRPCContext, and the test of ctx.session and ctx.userId in isAuthed
CreateTRPCContext(p) ==
    /\ proc[p].pc = "pp_ctx"
    /\ LET session == GetCurrentSession(proc[p].client) IN
       proc' = [proc EXCEPT ![p] =
                  IF session = <<>>
                  THEN [Finish(p, "Unauthorized") EXCEPT !.presented = cookies[proc[p].client].accessToken]
                  ELSE [proc[p] EXCEPT !.pc = "pp_user", !.presented = session[1]]]
    /\ UNCHANGED <<now, users, otps, sessionStore, cookies, otpLockSetAt, consumed, usedRefresh, revoked>>

\* prisma.user.findUnique({where: {id}})
FindUserById(userId) == {users[e] : e \in {e2 \in DOMAIN users : users[e2].id = userId}}

\* a gate that does not look at the status
ProcedureAllowsAnyStatus(kind, row) == kind = "verified" => row.verified

\* user.status === ACTIVE, and ctx.user.verified for a verified-only procedure
ProcedureAllows(kind, row) ==
    /\ row.status = "active"
    /\ kind = "verified" => row.verified

\* isAuthed after the context: findUnique, the status test, and verifiedAuth;
\* then the procedure runs with ctx.user, the row just read
ProtectedLoadUser(p) ==
    /\ proc[p].pc = "pp_user"
    /\ LET found == FindUserById(proc[p].presented.userId) IN
       proc' = [proc EXCEPT ![p] =
                  IF found = {} THEN Finish(p, "Unauthorized")
                  ELSE LET user == CHOOSE r \in found : TRUE IN
                       IF ~ProcedureAllows(proc[p].arg, user)
                       THEN Finish(p, IF user.status # "active" THEN "Forbidden" ELSE "BadRequest")
                       ELSE IF proc[p].arg = "logout"
                       THEN [proc[p] EXCEPT !.pc = "lo_run", !.user = <<user>>]
                       ELSE [Finish(p, "executed") EXCEPT !.user = <<user>>]]
    /\ UNCHANGED <<now, users, otps, sessionStore, cookies, otpLockSetAt, consumed, usedRefresh, revoked>>

\* authRouter.logout: invalidateSession(ctx.user.id) and clearAuthCookies
LogoutRun(p) ==
    /\ proc[p].pc = "lo_run"
    /\ sessionStore' = [u \in DOMAIN sessionStore \ {proc[p].user[1].id} |-> sessionStore[u]]
    /\ cookies' = [cookies EXCEPT ![proc[p].client] = NoCookies]
    /\ revoked' = revoked \cup
          {cookies[c].refreshToken : c \in {c2 \in Clients :
              /\ cookies[c2].refreshToken.type = "refresh"
              /\ cookies[c2].refreshToken.userId = proc[p].user[1].id}}
    /\ proc' = [proc EXCEPT ![p] = Finish(p, "ok")]
    /\ UNCHANGED <<now, users, otps, otpLockSetAt, consumed, usedRefresh>>

Protected(p) ==
    \/ \E c \in Clients, kind \in ProcedureKinds : ProtectedStart(p, c, kind)
    \/ CreateTRPCContext(p)
    \/ ProtectedLoadUser(p)
    \/ LogoutRun(p)

\* the caller sends its refresh token in the accessToken cookie
PresentRefreshAsAccess(c) ==
    /\ \A p \in Procs : proc[p].pc = "idle"
    /\ cookies[c].refreshToken.type = "refresh"
    /\ cookies[c].accessToken # cookies[c].refreshToken
    /\ cookies' = [cookies EXCEPT ![c].accessToken = cookies[c].refreshToken]
    /\ UNCHANGED <<now, users, otps, sessionStore, proc, otpLockSetAt, consumed, usedRefresh, revoked>>

\* the catch of authRouter.verifyEmail: the TRPC error code for what was thrown
VerifyEmailErrorCode(err) ==
    IF err = "OTPLockedError" THEN "TooManyRequests"
    ELSE IF err = "Invalid or expired OTP" THEN "BadRequest"
    ELSE IF err = "not an Error" THEN "InternalServerError"
    ELSE "NotFound"

\* the catch of authRouter.signIn: its last throw is unconditional
SignInErrorCode(err) ==
    IF err \in {"AccountLockedError", "OTPLockedError"} THEN "TooManyRequests"
    ELSE IF err = "AccountDisabledError" THEN "Forbidden"
    ELSE "Unauthorized"

\* the positions at which a task awaits a query on the Credential Store
StoreQueryPositions ==
    {"su_exists", "su_create", "su_otp",
     "ve_locked", "ve_find", "ve_txread", "ve_txinc", "ve_user", "ve_update", "ve_delete",
     "si_find", "si_incr", "si_reset", "si_lastlogin"}

\* the query a task awaits throws (the store is unreachable): Prisma's error, an
\* instance of Error, reaches the catch of the procedure
StoreQueryFails(p) ==
    /\ proc[p].pc \in StoreQueryPositions
    /\ LET err == "PrismaClientKnownRequestError"
           code == IF proc[p].op = "signup" THEN SignupErrorCode(err)
                   ELSE IF proc[p].op = "verifyEmail" THEN VerifyEmailErrorCode(err)
                   ELSE SignInErrorCode(err)
       IN proc' = [proc EXCEPT ![p] = [Finish(p, code) EXCEPT !.failedAt = "prisma"]]
    /\ UNCHANGED <<now, users, otps, sessionStore, cookies, otpLockSetAt, consumed, usedRefresh, revoked>>

\* a refresh token captured from one browser is presented from another: the
\* refreshToken cookie is whatever the caller sends
PresentCapturedToken(c1, c2) ==
    /\ c1 # c2
    /\ cookies[c1].refreshToken # NoToken
    /\ \A p \in Procs : proc[p].pc = "idle"
    /\ cookies' = [cookies EXCEPT ![c2].refreshToken = cookies[c1].refreshToken]
    /\ UNCHANGED <<now, users, otps, sessionStore, proc, otpLockSetAt, consumed, usedRefresh, revoked>>

\* what a caller can put into the refreshToken cookie without the server's
\* help: a string that is no JWT, a refresh token for a principal signed with
\* a key of its own, and the access token it holds
CraftedTokens(c) ==
    ({[NoToken EXCEPT !.type = "malformed"]}
       \cup {[GenerateRefreshToken([userId |-> users[e].id]) EXCEPT !.key = "attacker"] :
                e \in DOMAIN users}
       \cup {cookies[c].accessToken}) \ {NoToken}

PresentCraftedToken(c) ==
    /\ \A p \in Procs : proc[p].pc = "idle"
    /\ \E tok \in CraftedTokens(c) :
          /\ tok # cookies[c].refreshToken
          /\ cookies' = [cookies EXCEPT ![c].refreshToken = tok]
    /\ UNCHANGED <<now, users, otps, sessionStore, proc, otpLockSetAt, consumed, usedRefresh, revoked>>

(***************************************************************************)
(* Specifications                                                          *)
(***************************************************************************)
TickFiveMinutes == Tick(FiveMinutesMs, MaxTicks * FiveMinutesMs)

\* OTP verification, one request at a time
NextOTP ==
    \/ \E p \in SeqProcs : Signup(p) \/ VerifyEmail(p) \/ ResendVerification(p) \/ Return(p)
    \/ TickFiveMinutes

SpecOTP == Init /\ [][NextOTP]_vars

\* concurrent VerifyEmail (and Signup) requests; no time passes
NextOTPConc ==
    \E p \in ConcProcs : Signup(p) \/ VerifyEmail(p) \/ Return(p)

SpecOTPConc == Init /\ [][NextOTPConc]_vars

(***************************************************************************)
(* Properties of OTP verification                                          *)
(***************************************************************************)
\* task p takes the step from position a to position b
Moves(p, a, b) == proc[p].pc = a /\ proc'[p].pc = b

\* C5: for sequential VerifyEmail calls on an e-mail that has an OTP record, a call
\* with a wrong code (one that passed the lock check) adds exactly 1 to the
\* attempt counter; while the counter after the failure is below 3 the call fails
\* with InvalidOrExpiredOTP and no row carries a lock, and the failure that brings
\* it to 3 sets lockedUntil 15 minutes ahead and fails with OTPLocked.
C5_WrongCodeCounting ==
    [][\A p \in SeqProcs :
         LET e == proc[p].email IN
         /\ (Moves(p, "ve_txinc", "ve_decide") /\ OtpRows(e) # {}) =>
               \A r \in OtpRows(e) :
                  \E r2 \in otps' : r2.id = r.id /\ r2.attempts = r.attempts + 1
         /\ (Moves(p, "ve_decide", "done") /\ OtpRows(e) # {}) =>
               \A r \in OtpRows(e) :
                  IF r.attempts < 3
                  THEN /\ proc'[p].result = "InvalidOrExpiredOTP"
                       /\ \A r2 \in otps' : r2.lockedUntil = NullTime
                  ELSE /\ proc'[p].result = "OTPLocked"
                       /\ \A r2 \in otps' :
                             r2.identifier = e => r2.lockedUntil = now + 15 * 60 * 1000]_vars

\* the third wrong code has just been answered with OTPLocked
C5_Witness ==
    \E p \in SeqProcs :
       /\ proc[p].op = "verifyEmail" /\ proc[p].pc = "done" /\ proc[p].result = "OTPLocked"
       /\ proc[p].n = 3
       /\ \E r \in OtpRows(proc[p].email) :
             r.attempts = 3 /\ r.lockedUntil = now + 15 * 60 * 1000

\* C6: whenever all concurrent VerifyEmail calls have completed and the stored
\* attempt counter of an e-mail is 3 or more, the OTP lock has been set (by a call
\* that failed with OTPLocked).
C6_ThresholdNotRacedPast ==
    (\A p \in ConcProcs : proc[p].pc \in {"idle", "done"}) =>
        \A r \in otps :
           r.attempts >= 3 => r.lockedUntil # NullTime /\ otpLockSetAt[r.identifier] # NullTime

\* C7: once the attempt counter of an e-mail has reached 3 (the lock was set), no
\* VerifyEmail for it succeeds before 15 minutes have passed since then.
C7_NoSuccessWithinLockWindow ==
    \A p \in SeqProcs :
       (/\ proc[p].op = "verifyEmail" /\ proc[p].pc = "done" /\ proc[p].result = "ok"
        /\ otpLockSetAt[proc[p].email] # NullTime)
       => now >= otpLockSetAt[proc[p].email] + 15 * 60 * 1000

\* C8: a VerifyEmail that passed the lock check proceeds to verification exactly
\* when an unexpired row matches (e-mail, code) (an expired one counts as a
\* mismatch); it then sets verified = true and status = active, deletes every OTP
\* row of the e-mail and succeeds; a later VerifyEmail with the same code fails
\* with InvalidOrExpiredOTP.
C8_MatchVerifiesAndConsumes ==
    [][\A p \in SeqProcs :
         LET e == proc[p].email
             code == proc[p].arg
         IN
         /\ (proc[p].pc = "ve_find" /\ proc'[p].pc # "ve_find") =>
               /\ proc'[p].pc \in {"ve_user", "ve_txread"}
               /\ proc'[p].pc = "ve_user" <=>
                     \E r \in otps : r.identifier = e /\ r.otp = code /\ r.expires > now
         /\ (proc[p].pc = "ve_user" /\ proc'[p].pc # "ve_user") => proc'[p].pc = "ve_update"
         /\ (proc[p].pc = "ve_update" /\ proc'[p].pc # "ve_update") =>
               /\ proc'[p].pc = "ve_delete"
               /\ users'[e].verified /\ users'[e].status = "active"
         /\ (proc[p].pc = "ve_delete" /\ proc'[p].pc # "ve_delete") =>
               /\ proc'[p].pc = "done" /\ proc'[p].result = "ok"
               /\ users'[e].verified /\ users'[e].status = "active"
               /\ \A r \in otps' : r.identifier # e
         /\ (proc[p].op = "verifyEmail" /\ proc[p].replay /\ proc[p].pc # "done"
               /\ proc'[p].pc = "done") =>
               proc'[p].result = "InvalidOrExpiredOTP"]_vars

\* a code that verified the e-mail has been presented again and refused
C8_Witness ==
    \E p \in SeqProcs :
       /\ proc[p].op = "verifyEmail" /\ proc[p].pc = "done" /\ proc[p].replay
       /\ proc[p].result = "InvalidOrExpiredOTP"
       /\ users[proc[p].email].verified /\ users[proc[p].email].status = "active"
       /\ OtpRows(proc[p].email) = {}

(***************************************************************************)
(* Sign-in with lockout, one request at a time                             *)
(***************************************************************************)
NextLogin ==
    \/ \E p \in SeqProcs :
          \/ Signup(p)
          \/ \E e \in EmailInputs, pw \in Passwords : SignInStart(p, ToLowerCase(e), pw, "deviceA")
          \/ SignInAuthenticate(p)
          \/ SignInFailure(p)
          \/ SignInSuccess(p)
          \/ Return(p)
    \/ TickFiveMinutes

SpecLogin == Init /\ [][NextLogin]_vars

\* C9: for sequential SignIn calls with a wrong password on an existing unlocked
\* account, each call adds 1 to the failed-login counter; while the resulting
\* counter is below 5 the call fails with InvalidCredentials and sets no lock, and
\* the call that brings it to 5 or more sets lockedUntil 15 minutes ahead and fails
\* with AccountLocked.
C9_WrongPasswordCounting ==
    [][\A p \in SeqProcs :
         LET e == proc[p].email IN
         /\ (proc[p].pc = "si_compare" /\ proc'[p].pc # "si_compare"
               /\ HashPassword(proc[p].arg) # users[e].passwordHash) => proc'[p].pc = "si_incr"
         /\ Moves(p, "si_incr", "si_lock") =>
               /\ users'[e].failedLoginAttempts = users[e].failedLoginAttempts + 1
               /\ users'[e].lockedUntil = users[e].lockedUntil
         /\ (proc[p].pc = "si_lock" /\ proc'[p].pc # "si_lock") =>
               /\ proc'[p].pc = "done"
               /\ users'[e].failedLoginAttempts = users[e].failedLoginAttempts
               /\ IF users[e].failedLoginAttempts < 5
                  THEN /\ proc'[p].result = "InvalidCredentials"
                       /\ users'[e].lockedUntil = users[e].lockedUntil
                  ELSE /\ proc'[p].result = "AccountLocked"
                       /\ users'[e].lockedUntil = now + 15 * 60 * 1000]_vars

\* the fifth wrong password in a row has just been answered with AccountLocked
C9_Witness ==
    \E p \in SeqProcs :
       /\ proc[p].op = "signIn" /\ proc[p].pc = "done" /\ proc[p].result = "AccountLocked"
       /\ proc[p].compares = 1 /\ proc[p].arg = "Wr0ngPass1"
       /\ users[proc[p].email].failedLoginAttempts = 5
       /\ users[proc[p].email].lockedUntil = now + 15 * 60 * 1000

\* C10: while lockedUntil of the principal is in the future, a SignIn for its
\* e-mail, also with the correct password, fails with AccountLocked before any
\* password comparison, and leaves the failed-login counter, lockedUntil,
\* lastLogin, the Session Record and the cookies as they were.
C10_LockedSignInRefused ==
    [][\A p \in SeqProcs :
         LET e == proc[p].email IN
         (/\ proc[p].pc = "si_find" /\ proc'[p].pc # "si_find"
          /\ e \in DOMAIN users
          /\ users[e].lockedUntil # NullTime /\ users[e].lockedUntil > now)
         => /\ proc'[p].pc = "done"
            /\ proc'[p].result = "AccountLocked"
            /\ proc'[p].compares = 0
            /\ users' = users
            /\ sessionStore' = sessionStore
            /\ cookies' = cookies]_vars

\* a sign-in with the correct password has been refused by the lock
C10_Witness ==
    \E p \in SeqProcs :
       /\ proc[p].op = "signIn" /\ proc[p].pc = "done" /\ proc[p].result = "AccountLocked"
       /\ proc[p].compares = 0 /\ proc[p].arg = "Passw0rd1"
       /\ users[proc[p].email].lockedUntil > now

(***************************************************************************)
(* Sessions: sign-in, refresh and sign-out from two browsers               *)
(***************************************************************************)
TickFourDays == Tick(FourDaysMs, MaxSessionTicks * FourDaysMs)

NextSession ==
    \/ \E p \in SeqProcs :
          \/ Signup(p)
          \/ \E e \in EmailInputs, pw \in SignupPasswords, c \in Clients :
                SignInStart(p, ToLowerCase(e), pw, c)
          \/ SignInAuthenticate(p)
          \/ SignInSuccess(p)
          \/ Refresh(p)
          \/ SignOut(p)
          \/ Return(p)
    \/ \E c1, c2 \in Clients : PresentCapturedToken(c1, c2)
    \/ TickFourDays

SpecSession == Init /\ [][NextSession]_vars

\* the caller of task p holds neither cookie
CookiesCleared(p) == cookies[proc[p].client] = NoCookies

\* C1: a RefreshAccessToken presenting a refresh token that an earlier successful
\* RefreshAccessToken already presented (and replaced by a new one) returns no
\* access token, and the principal's Session Record is deleted and both cookies
\* are cleared.
C1_ReusedRefreshTokenRejected ==
    \A p \in SeqProcs :
       (proc[p].op = "refresh" /\ proc[p].pc = "done" /\ proc[p].replay) =>
          /\ proc[p].result = "null"
          /\ GetSession(proc[p].presented.userId) = <<>>
          /\ CookiesCleared(p)

\* C2: a RefreshAccessToken presenting a validly signed, unexpired refresh token
\* whose hash differs from the one in the principal's Session Record returns no
\* access token, deletes the Session Record and clears both cookies.
C2_MismatchedRefreshTokenRejected ==
    \A p \in SeqProcs :
       (proc[p].op = "refresh" /\ proc[p].pc = "done" /\ proc[p].mismatch) =>
          /\ proc[p].result = "null"
          /\ GetSession(proc[p].presented.userId) = <<>>
          /\ CookiesCleared(p)

\* C3: there is one Session Record per principal id, and after a successful
\* SignIn or RefreshAccessToken its refresh-token field corresponds to the
\* refresh token that operation issued.
C3_RecordHoldsLatestRefreshToken ==
    /\ \A u \in DOMAIN sessionStore : sessionStore[u].data.userId = u
    /\ \A p \in SeqProcs :
          (proc[p].op \in {"signIn", "refresh"} /\ proc[p].pc = "done" /\ proc[p].result = "ok") =>
             /\ proc[p].tok.userId \in DOMAIN sessionStore
             /\ sessionStore[proc[p].tok.userId].data.refreshToken
                   \in {proc[p].tok, HashOfToken(proc[p].tok)}

\* C4: the refresh-token field of every Session Record is the one-way hash of a
\* refresh token, never the token string itself.
C4_NoPlaintextRefreshToken ==
    \A u \in DOMAIN sessionStore : sessionStore[u].data.refreshToken.type = "hash"

(***************************************************************************)
(* Concurrent sign-ins with wrong passwords                                *)
(***************************************************************************)
WrongPasswords == {pw \in Passwords : pw \notin SignupPasswords}

\* concurrent SignIn requests, all with a wrong password; no time passes
NextLoginConc ==
    \E p \in ConcProcs :
       \/ Signup(p)
       \/ \E e \in EmailInputs, pw \in WrongPasswords :
             SignInStart(p, ToLowerCase(e), pw, "deviceA")
       \/ SignInAuthenticate(p)
       \/ SignInFailure(p)
       \/ Return(p)

SpecLoginConc == Init /\ [][NextLoginConc]_vars

\* C11: in every interleaving of concurrent wrong-password SignIn calls on one
\* account, each call's increment adds exactly 1 to the stored failed-login counter
\* (no increment is lost and nothing else changes the counter), and whenever all
\* calls have completed with the counter at 5 or more, lockedUntil has been set.
C11_ConcurrentFailuresCounted ==
    [][\A e \in DOMAIN users :
         /\ e \in DOMAIN users'
         /\ users'[e].failedLoginAttempts = users[e].failedLoginAttempts
               + Cardinality({p \in ConcProcs : proc[p].email = e /\ Moves(p, "si_incr", "si_lock")})
         /\ ((\A p \in ConcProcs : proc'[p].pc \in {"idle", "done"})
               /\ users'[e].failedLoginAttempts >= 5)
             => users'[e].lockedUntil # NullTime]_vars

\* two sign-ins that both passed the lock check have failed concurrently: the
\* counter went from 4 to 6 and the account is locked
C11_Witness ==
    /\ \A p \in ConcProcs :
          proc[p].op = "signIn" /\ proc[p].pc = "done" /\ proc[p].result = "AccountLocked"
    /\ {proc[p].n : p \in ConcProcs} = {5, 6}
    /\ \A e \in DOMAIN users :
          users[e].failedLoginAttempts = 6 /\ users[e].lockedUntil = now + 15 * 60 * 1000

(***************************************************************************)
(* Accounts: verification, status changes, sign-in and session creation    *)
(***************************************************************************)
NextAccount ==
    \/ \E p \in SeqProcs :
          \/ Signup(p)
          \/ VerifyEmail(p)
          \/ \E e \in EmailInputs, pw \in SignupPasswords :
                SignInStart(p, ToLowerCase(e), pw, "deviceA")
          \/ SignInAuthenticate(p)
          \/ SignInSuccess(p)
          \/ SignInSessionFailure(p)
          \/ Return(p)
    \/ \E e \in Emails, status \in UserStatuses : UpdateUserStatus(e, status)

SpecAccount == Init /\ [][NextAccount]_vars

\* C12: a SignIn with the correct password on a verified principal whose status
\* is not active resets the failed-login counter to 0 and then fails with
\* AccountDisabled carrying the status; it issues no token, writes no Session
\* Record, sets no cookie and leaves lastLogin as it was.
C12_DisabledAccountRefused ==
    [][\A p \in SeqProcs :
         LET e == proc[p].email IN
         (/\ proc[p].op = "signIn" /\ proc[p].pc \notin {"idle", "done"}
          /\ proc'[p].pc # proc[p].pc
          /\ e \in DOMAIN users
          /\ users[e].verified /\ users[e].status # "active"
          /\ users[e].lockedUntil = NullTime
          /\ HashPassword(proc[p].arg) = users[e].passwordHash)
         => /\ sessionStore' = sessionStore
            /\ cookies' = cookies
            /\ users'[e].lastLogin = users[e].lastLogin
            /\ proc'[p].tok = NoToken
            /\ proc'[p].pc \in {"si_compare", "si_reset", "done"}
            /\ proc'[p].pc = "done" =>
                  /\ proc[p].pc = "si_reset"
                  /\ proc'[p].result = "AccountDisabled"
                  /\ proc'[p].status = users[e].status
                  /\ users'[e].failedLoginAttempts = 0]_vars

\* a verified, suspended principal has been refused with the correct password
C12_Witness ==
    \E p \in SeqProcs :
       /\ proc[p].op = "signIn" /\ proc[p].pc = "done" /\ proc[p].result = "AccountDisabled"
       /\ proc[p].status = "suspended" /\ proc[p].compares = 1
       /\ users[proc[p].email].verified /\ users[proc[p].email].status = "suspended"
       /\ users[proc[p].email].failedLoginAttempts = 0
       /\ UserIdOf(proc[p].email) \notin DOMAIN sessionStore

C15_DuplicateSignupConflicts ==
    /\ \A p \in ConcProcs :
          (proc[p].op = "signup" /\ proc[p].pc = "done" /\ proc[p].result # "ok")
             => proc[p].result = "Conflict"
    /\ \A e \in DOMAIN users : users[e].email = e /\ e = ToLowerCase(e)

\* C16: a ResendVerification answers with the same success for an unknown
\* e-mail, a verified principal and an unverified one (delivered or not); it never
\* changes a principal; for an unknown e-mail or a verified principal it changes no
\* OTP row, and for an unverified principal it deletes the e-mail's OTP rows and
\* creates one new row.
C16_ResendAnswersAlike ==
    [][\A p \in SeqProcs :
         LET e == proc[p].email IN
         (proc[p].op = "resend" /\ proc'[p].pc # proc[p].pc) =>
            /\ users' = users
            /\ proc'[p].pc = "done" => proc'[p].result = "ok"
            /\ proc[p].pc = "rs_user" =>
                  /\ otps' = otps
                  /\ proc'[p].pc = IF e \in DOMAIN users /\ ~users[e].verified
                                   THEN "rs_delete" ELSE "rs_delay"
            /\ proc[p].pc = "rs_delete" =>
                  /\ proc'[p].pc = "rs_create"
                  /\ otps' = {r \in otps : r.identifier # e}
            /\ proc[p].pc = "rs_create" =>
                  /\ proc'[p].pc = "rs_delay"
                  /\ otps \subseteq otps'
                  /\ Cardinality({r \in otps' : r.identifier = e}) = 1
                  /\ \A r \in otps' \ otps : r.attempts = 0 /\ r.lockedUntil = NullTime
            /\ proc[p].pc = "rs_delay" => proc'[p].pc = "done" /\ otps' = otps]_vars

\* a resend for a verified principal has been answered with success
C16_Witness ==
    \E p \in SeqProcs :
       /\ proc[p].op = "resend" /\ proc[p].pc = "done" /\ proc[p].result = "ok"
       /\ proc[p].mail = ""
       /\ proc[p].email \in DOMAIN users
       /\ users[proc[p].email].verified
       /\ OtpRows(proc[p].email) = {}

\* C17: every ResendVerification returns no earlier than 800 ms after it
\* started, and exactly 800 ms after it started when its work took less than that,
\* on each of the three paths.
C17_ResendDurationFloor ==
    \A p \in SeqProcs :
       (proc[p].op = "resend" /\ proc[p].pc = "done") =>
          /\ proc[p].duration >= 800
          /\ proc[p].duration >= proc[p].elapsed
          /\ proc[p].elapsed < 800 => proc[p].duration = 800

\* a resend for an unknown e-mail whose lookup took 500 ms has returned after 800 ms
C17_Witness ==
    \E p \in SeqProcs :
       /\ proc[p].op = "resend" /\ proc[p].pc = "done"
       /\ proc[p].email \notin DOMAIN users
       /\ proc[p].elapsed = 500 /\ proc[p].duration = 800

(***************************************************************************)
(* Refresh with cookies the caller made up                                 *)
(***************************************************************************)
NextRefresh ==
    \/ \E p \in SeqProcs :
          \/ Signup(p)
          \/ \E e \in EmailInputs, pw \in SignupPasswords :
                SignInStart(p, ToLowerCase(e), pw, "deviceA")
          \/ SignInAuthenticate(p)
          \/ SignInSuccess(p)
          \/ Refresh(p)
          \/ Return(p)
    \/ \E c \in Clients : PresentCraftedToken(c)
    \/ TickFourDays

SpecRefresh == Init /\ [][NextRefresh]_vars

\* C18: a SignIn that fails with InvalidCredentials has made exactly one
\* password-hash comparison, whether the e-mail is unknown or the password is
\* wrong; a SignIn for an unknown e-mail ends with InvalidCredentials and changes
\* no principal, OTP row, Session Record or cookie.
C18_OneComparisonPerFailure ==
    [][\A p \in SeqProcs :
         (proc[p].op = "signIn" /\ proc'[p].pc # proc[p].pc) =>
            /\ (proc'[p].pc = "done" /\ proc'[p].result = "InvalidCredentials") =>
                  proc'[p].compares = 1
            /\ proc[p].email \notin DOMAIN users =>
                  /\ users' = users /\ otps' = otps
                  /\ sessionStore' = sessionStore /\ cookies' = cookies
                  /\ proc'[p].pc = "done" => proc'[p].result = "InvalidCredentials"]_vars

\* a sign-in for an unknown e-mail has been refused after one comparison
C18_Witness ==
    \E p \in SeqProcs :
       /\ proc[p].op = "signIn" /\ proc[p].pc = "done"
       /\ proc[p].result = "InvalidCredentials" /\ proc[p].compares = 1
       /\ proc[p].email \notin DOMAIN users

\* C19: RefreshAccessToken always returns; when the refresh cookie is absent,
\* is no token, is signed with another key, is expired or is not of type refresh,
\* or when the principal has no live Session Record or the store read fails, it
\* returns the absent result, issues no token and sets no cookie.
C19_RefreshReturnsAbsent ==
    [][\A p \in SeqProcs :
         (proc[p].pc = "rf_run" /\ proc'[p].pc # "rf_run") =>
            LET t == cookies[proc[p].client].refreshToken IN
            /\ proc'[p].pc = "done" /\ proc'[p].result \in {"null", "ok"}
            /\ (\/ t.type # "refresh"
                \/ t.key # "JWT_SECRET"
                \/ t.exp * 1000 <= now
                \/ t.userId \notin DOMAIN sessionStore
                \/ sessionStore[t.userId].ttlUntil <= now
                \/ proc'[p].failedAt = "getSession")
               => /\ proc'[p].result = "null"
                  /\ proc'[p].tok = NoToken
                  /\ cookies' = cookies
                  /\ sessionStore' = sessionStore]_vars

\* a refresh token signed with another key has been refused while the
\* principal has a live Session Record
C19_Witness ==
    \E p \in SeqProcs :
       /\ proc[p].op = "refresh" /\ proc[p].pc = "done" /\ proc[p].result = "null"
       /\ proc[p].presented.type = "refresh" /\ proc[p].presented.key = "attacker"
       /\ proc[p].presented.exp * 1000 > now
       /\ GetSession(proc[p].presented.userId) # <<>>
       /\ cookies[proc[p].client].refreshToken = proc[p].presented

\* C20: a SignOut leaves no Session Record for the principal and neither cookie
\* with the caller, also when it is the second one in a row, and completes
\* without error; a RefreshAccessToken presenting a refresh token issued before a
\* SignOut of its principal returns the absent result.
C20_SignOutRevokes ==
    \A p \in SeqProcs :
       /\ (proc[p].op = "signOut" /\ proc[p].pc = "done") =>
             /\ proc[p].result = "ok"
             /\ UserIdOf(proc[p].email) \notin DOMAIN sessionStore
             /\ CookiesCleared(p)
       /\ (proc[p].op = "refresh" /\ proc[p].pc = "done" /\ proc[p].afterSignOut) =>
             proc[p].result = "null"

(***************************************************************************)
(* Requests during which a query on the Credential Store fails             *)
(***************************************************************************)
NextFailure ==
    \E p \in SeqProcs :
       \/ Signup(p)
       \/ VerifyEmail(p)
       \/ \E e \in EmailInputs, pw \in Passwords : SignInStart(p, ToLowerCase(e), pw, "deviceA")
       \/ SignInAuthenticate(p)
       \/ SignInFailure(p)
       \/ SignInSuccess(p)
       \/ StoreQueryFails(p)
       \/ Return(p)

SpecFailure == Init /\ [][NextFailure]_vars

\* C21: when a query on the Credential Store throws inside Signup, VerifyEmail
\* or SignIn, the caller receives the InternalServerError category and no other.
C21_StoreFailureIsOpaque ==
    \A p \in SeqProcs :
       (proc[p].pc = "done" /\ proc[p].failedAt = "prisma") =>
          proc[p].result = "InternalServerError"

(***************************************************************************)
(* Properties of the access token                                          *)
(***************************************************************************)
\* C22: every access token the server issued, at SignIn or at
\* RefreshAccessToken, carries the claims userId, email, name, role and verified
\* (with type, iat and exp) and nothing else: no refresh token and no other
\* field of the Session Record.
C22_AccessTokenClaimShape ==
    \A c \in Clients :
       (cookies[c].accessToken.type = "access" /\ cookies[c].accessToken.key = JWT_SECRET) =>
          DOMAIN cookies[c].accessToken.claims = {"userId", "email", "name", "role", "verified"}

(***************************************************************************)
(* Protected procedures after sign-in, verification and status changes     *)
(***************************************************************************)
NextProtected ==
    \/ \E p \in SeqProcs :
          \/ Signup(p)
          \/ VerifyEmail(p)
          \/ \E e \in EmailInputs, pw \in SignupPasswords :
                SignInStart(p, ToLowerCase(e), pw, "deviceA")
          \/ SignInAuthenticate(p)
          \/ SignInSuccess(p)
          \/ Refresh(p)
          \/ Protected(p)
          \/ Return(p)
    \/ \E e \in Emails, status \in UserStatuses : UpdateUserStatus(e, status)
    \/ \E c \in Clients : PresentRefreshAsAccess(c)

SpecProtected == Init /\ [][NextProtected]_vars

\* C23: a protected procedure runs only if the principal named by the token
\* exists in the Credential Store with status active at the time of the check,
\* a verified-only procedure only if moreover the store's verified flag is true;
\* the role, status and verified values it runs with are the store's.
C23_ProtectedChecksStore ==
    [][\A p \in SeqProcs :
         (/\ proc[p].pc = "pp_user"
          /\ \/ proc'[p].pc = "lo_run"
             \/ proc'[p].pc = "done" /\ proc'[p].result = "executed")
         => \E e \in DOMAIN users :
               /\ users[e].id = proc[p].presented.userId
               /\ users[e].status = "active"
               /\ proc[p].arg = "verified" => users[e].verified
               /\ proc'[p].user[1].role = users[e].role
               /\ proc'[p].user[1].status = users[e].status
               /\ proc'[p].user[1].verified = users[e].verified]_vars

\* a verified-only procedure has run for a token whose verified claim is false,
\* because the store says the principal is verified
C23_Witness ==
    \E p \in SeqProcs :
       /\ proc[p].op = "protected" /\ proc[p].arg = "verified"
       /\ proc[p].pc = "done" /\ proc[p].result = "executed"
       /\ proc[p].presented.type = "access" /\ ~proc[p].presented.claims.verified
       /\ proc[p].user[1].verified

\* C26: a validly signed token of type refresh in the accessToken cookie is not
\* accepted: the request is treated as unauthenticated, so no protected
\* procedure runs for it.
C26_RefreshTokenIsNoCredential ==
    \A p \in SeqProcs :
       (proc[p].op = "protected" /\ proc[p].pc = "done" /\ proc[p].presented.type = "refresh")
          => proc[p].result \notin {"executed", "ok"}

\* C29: the verified claim of the access token a RefreshAccessToken issued
\* equals the verified flag of the principal in the Credential Store.
C29_RefreshedVerifiedClaim ==
    \A p \in SeqProcs :
       (proc[p].op = "refresh" /\ proc[p].pc = "done" /\ proc[p].result = "ok") =>
          \A row \in FindUserById(cookies[proc[p].client].accessToken.userId) :
             cookies[proc[p].client].accessToken.claims.verified = row.verified

\* C30: a logout called with an access token that SignIn issued and that has not
\* expired succeeds, deletes the Session Record and clears both cookies, also for
\* an unverified principal whose status is inactive.
C30_LogoutAlwaysPossible ==
    \A p \in SeqProcs :
       (/\ proc[p].op = "protected" /\ proc[p].arg = "logout" /\ proc[p].pc = "done"
        /\ proc[p].presented.type = "access" /\ proc[p].presented.key = JWT_SECRET
        /\ proc[p].presented.exp * 1000 > now)
       => /\ proc[p].result = "ok"
          /\ proc[p].presented.userId \notin DOMAIN sessionStore
          /\ CookiesCleared(p)

(***************************************************************************)
(* Concurrent ResendVerification and VerifyEmail requests                  *)
(***************************************************************************)
\* no time passes
NextResendConc ==
    \E p \in ConcProcs : Signup(p) \/ ResendVerification(p) \/ VerifyEmail(p) \/ Return(p)

SpecResendConc == Init /\ [][NextResendConc]_vars

\* C24: in every reachable state, whatever the interleaving of Signup,
\* ResendVerification and VerifyEmail, an e-mail address has at most one OTP
\* record.
C24_OneOtpPerEmail ==
    \A e \in Emails : Cardinality(OtpRows(e)) <= 1

\* C28: whatever the interleaving of ResendVerification and VerifyEmail, once
\* every request has run to its end no OTP record exists for the e-mail address
\* of a verified principal.
C28_NoOtpForVerified ==
    (\A p \in ConcProcs : proc[p].pc \in {"idle", "done"}) =>
       \A e \in DOMAIN users : users[e].verified => OtpRows(e) = {}

(***************************************************************************)
(* Properties of the attempt counters                                      *)
(***************************************************************************)
\* the attempts recorded against an e-mail address in verification_tokens
OtpAttemptCounter(e) ==
    IF OtpRows(e) = {} THEN 0
    ELSE CHOOSE n \in {r.attempts : r \in OtpRows(e)} : \A r \in OtpRows(e) : r.attempts <= n

\* C25: the failed-login counter of an account and the OTP attempt counter of
\* an e-mail address go down in no step except the reset to zero of a SignIn
\* whose password matched, respectively of a VerifyEmail whose OTP matched; a
\* ResendVerification does not lower them.
C25_CountersOnlyResetOnSuccess ==
    [][\A e \in Emails :
         /\ OtpAttemptCounter(e)' < OtpAttemptCounter(e) =>
               /\ OtpAttemptCounter(e)' = 0
               /\ \E p \in Procs : proc[p].pc = "ve_delete" /\ proc[p].email = e
         /\ (e \in DOMAIN users /\ users'[e].failedLoginAttempts < users[e].failedLoginAttempts) =>
               /\ users'[e].failedLoginAttempts = 0
               /\ \E p \in Procs : proc[p].pc = "si_reset" /\ proc[p].email = e]_vars

(***************************************************************************)
(* Concurrent SignIn requests with right and wrong passwords               *)
(***************************************************************************)
\* no time passes
NextLoginRace ==
    \E p \in ConcProcs :
       \/ Signup(p)
       \/ \E e \in EmailInputs, pw \in Passwords :
             SignInStart(p, ToLowerCase(e), pw, "deviceA")
       \/ SignInAuthenticate(p)
       \/ SignInFailure(p)
       \/ SignInSuccess(p)
       \/ Return(p)

SpecLoginRace == Init /\ [][NextLoginRace]_vars

\* C27: whatever the interleaving of concurrent SignIn requests for one account,
\* no SignIn creates a Session Record and returns success at a moment when the
\* account's lockedUntil is in the future.
C27_NoSessionWhileLocked ==
    [][\A p \in ConcProcs :
         (proc[p].pc = "si_session" /\ proc'[p].pc = "done" /\ proc'[p].result = "ok")
            => ~(users[proc[p].email].lockedUntil > now)]_vars

=============================================================================
